---- MODULE Spec2Model ----
(***************************************************************************)
(* The Opportunity Insights Dashboard (src/app.py) as a state machine.     *)
(*                                                                         *)
(* The script is re-executed from its first line on every user             *)
(* interaction.  A state holds what survives between two executions (the   *)
(* uploaded file, st.session_state, the widgets' values) and what the      *)
(* last execution produced (run).  Every action is one interaction         *)
(* followed by the whole re-execution, RunScript.                          *)
(*                                                                         *)
(* Cells of a table are naturals: a text cell is the rank of its text in   *)
(* the order Python's sorted() uses, a revenue cell is its amount, and     *)
(* NaN is the missing value pandas reads from an empty cell.               *)
(***************************************************************************)
EXTENDS Integers, Sequences, FiniteSets, TLC

VARIABLES uploaded, session_state, widgets, run

vars == <<uploaded, session_state, widgets, run>>

\* Bounds of the model.
MaxRows == 2
MaxAccounts == 11
MaxSelected == 2

\* ------------------------------------------------------------------------
\* Program constants
\* ------------------------------------------------------------------------

FILTER_COLUMNS == <<"Account", "Market", "Description", "Stage", "Fiscal Period">>

OUTPUT_COLUMNS ==
  <<"Account", "Opportunity ID", "Opportunity Name", "Market",
    "Primary Industry", "Responsible Delivery Entity", "Description",
    "Stage", "Fiscal Period", "Total Current Revenue (converted)",
    "SI SG Revenue (converted)", "SC SG Revenue (converted)",
    "Con SG Revenue (converted)", "Primary Opportunity Lead",
    "Client Account Lead">>

REVENUE == "Total Current Revenue (converted)"

FILTER_CHUNK == 4
SLIDER_MIN == 1
SLIDER_MAX_FLOOR == 5
SLIDER_DEFAULT_CAP == 10
MILLION == 1000000

NaN == 0

\* ------------------------------------------------------------------------
\* Python and pandas helpers
\* ------------------------------------------------------------------------

Range(s) == {s[i] : i \in DOMAIN s}

min(a, b) == IF a <= b THEN a ELSE b

max(a, b) == IF a >= b THEN a ELSE b

\* lst[i:i + n] for i in range(0, len(lst), n)
chunk_list(lst, n) ==
  [k \in 1..((Len(lst) + n - 1) \div n) |->
     SubSeq(lst, (k - 1) * n + 1, min(k * n, Len(lst)))]

RECURSIVE Flatten(_)
Flatten(ss) == IF ss = <<>> THEN <<>> ELSE Head(ss) \o Flatten(Tail(ss))

\* Series.unique(): the distinct values in order of first appearance, NaN
\* included.
RECURSIVE unique(_)
unique(s) ==
  IF s = <<>> THEN <<>>
  ELSE LET init == unique(SubSeq(s, 1, Len(s) - 1))
           last == s[Len(s)]
       IN IF last \in Range(init) THEN init ELSE Append(init, last)

IsValue(v) == v # NaN

\* Series.dropna()
dropna(s) == SelectSeq(s, IsValue)

\* sorted(): ascending insertion sort.
RECURSIVE Insert(_, _)
Insert(s, v) ==
  IF s = <<>> THEN <<v>>
  ELSE IF v < Head(s) THEN <<v>> \o s
       ELSE <<Head(s)>> \o Insert(Tail(s), v)

RECURSIVE sorted(_)
sorted(s) == IF s = <<>> THEN <<>> ELSE Insert(sorted(SubSeq(s, 1, Len(s) - 1)), s[Len(s)])

RECURSIVE SumSeq(_)
SumSeq(s) == IF s = <<>> THEN 0 ELSE Head(s) + SumSeq(Tail(s))

\* ------------------------------------------------------------------------
\* Tables (DataFrame): ordered column names and rows in file order
\* ------------------------------------------------------------------------

EmptyTable == [columns |-> <<>>, rows |-> <<>>]

\* `c in df.columns`
HasColumn(t, c) == c \in Range(t.columns)

\* df[c] of a present column
Column(t, c) == [i \in DOMAIN t.rows |-> t.rows[i][c]]

\* df[cols]: the listed columns in the listed order, every row kept.
Select(t, cols) ==
  [columns |-> cols,
   rows |-> [i \in DOMAIN t.rows |-> [c \in Range(cols) |-> t.rows[i][c]]]]

\* A faulty variant of the projection: the source's column order is kept.
KeepSourceOrder(df) ==
  LET InOutput(c) == c \in Range(OUTPUT_COLUMNS)
  IN Select(df, SelectSeq(df.columns, InOutput))

\* data = df[[c for c in OUTPUT_COLUMNS if c in df.columns]].copy()
ColumnProjector(df) ==
  LET Present(c) == c \in Range(df.columns)
  IN Select(df, SelectSeq(OUTPUT_COLUMNS, Present))

\* A faulty variant of DataFrame.empty: only the rows are counted.
NoRows(t) == Len(t.rows) = 0

\* DataFrame.empty: any axis of length 0.
empty(t) == Len(t.rows) = 0 \/ Len(t.columns) = 0

\* ------------------------------------------------------------------------
\* Uploaded files and load_file
\* ------------------------------------------------------------------------

\* An uploaded file: the end of its name, what its bytes are, and the table
\* they hold.  The uploader accepts csv, xlsx and xls names in any case.
NoFile == [name |-> "", content |-> "none", table |-> EmptyTable]

Failure == [ok |-> FALSE, table |-> EmptyTable]

Success(t) == [ok |-> TRUE, table |-> t]

\* str.lower() on the end of the file name.
lower(name) ==
  CASE name = ".CSV" -> ".csv"
    [] name = ".XLSX" -> ".xlsx"
    [] OTHER -> name

\* name.endswith(".csv")
endswith_csv(name) == name = ".csv"

\* pd.read_csv(uploaded_file, encoding=...): UTF-8 decodes only UTF-8 text,
\* Latin-1 decodes every byte; a workbook's or a malformed file's bytes are
\* no well-formed CSV under either.
read_csv(f, encoding) ==
  CASE f.content = "utf8-csv" -> Success(f.table)
    [] f.content = "latin1-csv" ->
         IF encoding = "latin1" THEN Success(f.table) ELSE Failure
    [] OTHER -> Failure

\* pd.read_excel(uploaded_file): the first sheet of a workbook.
read_excel(f) == IF f.content = "workbook" THEN Success(f.table) ELSE Failure

Attempt(parser, offset, res) == [parser |-> parser, offset |-> offset, ok |-> res.ok]

\* load_file: the try block, and the bare except around both of its parsers.
load_file(uploaded_file) ==
  LET name == lower(uploaded_file.name)
      first == IF endswith_csv(name)
               THEN [parser |-> "csv-utf-8", res |-> read_csv(uploaded_file, "utf-8")]
               ELSE [parser |-> "excel", res |-> read_excel(uploaded_file)]
      a1 == Attempt(first.parser, 0, first.res)
  IN IF first.res.ok
     THEN [ok |-> TRUE, df |-> first.res.table, attempts |-> <<a1>>]
     ELSE LET second == read_csv(uploaded_file, "latin1")
          IN [ok |-> second.ok, df |-> second.table,
              attempts |-> <<a1, Attempt("csv-latin1", 0, second)>>]

\* ------------------------------------------------------------------------
\* Filters
\* ------------------------------------------------------------------------

\* options = sorted(data[col].dropna().unique().tolist())
filter_options(data, col) == sorted(unique(dropna(Column(data, col))))

\* Series.isin(selections)
isin(v, selections) == v \in selections

\* df[mask]: the rows whose mask entry is True, in order.
RECURSIVE BooleanIndex(_, _)
BooleanIndex(rows, mask) ==
  IF rows = <<>> THEN <<>>
  ELSE IF Head(mask) THEN <<Head(rows)>> \o BooleanIndex(Tail(rows), Tail(mask))
       ELSE BooleanIndex(Tail(rows), Tail(mask))

\* filtered[filtered[col].isin(selections)]
filter_step(filtered, col, selections) ==
  [filtered EXCEPT
     !.rows = BooleanIndex(filtered.rows,
                [i \in DOMAIN filtered.rows |-> isin(filtered.rows[i][col], selections)])]

\* A faulty variant of the filter loop: every step filters `data`, so the last
\* active filter wins.
RECURSIVE FilterFromData(_, _)
FilterFromData(data, filters) ==
  IF filters = <<>> THEN data
  ELSE LET it == filters[Len(filters)]
       IN IF it.selections # {}
          THEN filter_step(data, it.col, it.selections)
          ELSE FilterFromData(data, SubSeq(filters, 1, Len(filters) - 1))

\* filtered = data.copy(); for col, selections in filters.items(): ...
RECURSIVE Filterer(_, _)
Filterer(data, filters) ==
  IF filters = <<>> THEN data
  ELSE LET filtered == Filterer(data, SubSeq(filters, 1, Len(filters) - 1))
           it == filters[Len(filters)]
       IN IF it.selections # {}
          THEN filter_step(filtered, it.col, it.selections)
          ELSE filtered

\* ------------------------------------------------------------------------
\* Metrics and aggregation
\* ------------------------------------------------------------------------

\* A faulty variant of filtered[c]: a missing column reads as an empty series.
get_or_empty(t, c) ==
  [ok |-> TRUE, values |-> IF HasColumn(t, c) THEN Column(t, c) ELSE <<>>]

\* filtered[c]: the column, or KeyError.
getitem(t, c) ==
  [ok |-> HasColumn(t, c), values |-> IF HasColumn(t, c) THEN Column(t, c) ELSE <<>>]

\* Series.sum(): NaN is skipped, and NaN is 0 here.
sum(values) == SumSeq(values)

\* Series.nunique(): the distinct values, NaN not counted.
nunique(values) == Len(unique(dropna(values)))

\* The display value x / 1_000_000, as a fraction.
in_millions(x) == [num |-> x, den |-> MILLION]

\* The values of column col in the rows whose `by` is key.
group_values(t, by, col, key) ==
  LET InGroup(r) == r[by] = key
      g == SelectSeq(t.rows, InGroup)
  IN [i \in DOMAIN g |-> g[i][col]]

\* groupby(by): the group keys, sorted, NaN keys dropped.
group_keys(t, by) == sorted(unique(dropna(Column(t, by))))

\* filtered.groupby(by)[col].sum()
groupby_sum(t, by, col) ==
  LET keys == group_keys(t, by)
  IN [i \in DOMAIN keys |->
        [key |-> keys[i], value |-> sum(group_values(t, by, col, keys[i]))]]

\* filtered.groupby(by)[col].nunique()
groupby_nunique(t, by, col) ==
  LET keys == group_keys(t, by)
  IN [i \in DOMAIN keys |->
        [key |-> keys[i], value |-> nunique(group_values(t, by, col, keys[i]))]]

RECURSIVE InsertDescending(_, _)
InsertDescending(s, e) ==
  IF s = <<>> THEN <<e>>
  ELSE IF Head(s).value < e.value THEN <<e>> \o s
       ELSE <<Head(s)>> \o InsertDescending(Tail(s), e)

RECURSIVE SortDescending(_)
SortDescending(s) ==
  IF s = <<>> THEN <<>>
  ELSE InsertDescending(SortDescending(SubSeq(s, 1, Len(s) - 1)), s[Len(s)])

RECURSIVE Arrangements(_)
Arrangements(s) ==
  IF s = <<>> THEN {<<>>}
  ELSE UNION {{<<s[i]>> \o a :
                 a \in Arrangements(SubSeq(s, 1, i - 1) \o SubSeq(s, i + 1, Len(s)))} :
              i \in DOMAIN s}

\* Every order of a sorted series that differs only among equal values.
RECURSIVE TieOrders(_)
TieOrders(s) ==
  IF s = <<>> THEN {<<>>}
  ELSE LET k == CHOOSE k \in DOMAIN s :
                  /\ \A i \in 1..k : s[i].value = s[1].value
                  /\ (k < Len(s) => s[k + 1].value # s[1].value)
       IN {a \o r : a \in Arrangements(SubSeq(s, 1, k)),
                    r \in TieOrders(SubSeq(s, k + 1, Len(s)))}

\* sort_values(ascending=False): the default sort (quicksort) is not stable,
\* so every descending order of the series is a possible result.
sort_values_descending(s) == TieOrders(SortDescending(s))

\* Series.head(n)
head(s, n) == SubSeq(s, 1, min(n, Len(s)))

\* A faulty variant of revenue_series: sorted in index order, not by sum.
revenue_unsorted(filtered, top_n) == {head(groupby_sum(filtered, "Account", REVENUE), top_n)}

\* groupby("Account")[REVENUE].sum().sort_values(ascending=False).head(top_n)
revenue_series_of(filtered, top_n) ==
  {head(s, top_n) : s \in sort_values_descending(groupby_sum(filtered, "Account", REVENUE))}

\* Series.reindex(index): the values at the given keys, in their order; a
\* key the series lacks reads NaN.
reindex(s, index) ==
  [i \in DOMAIN index |->
     [key |-> index[i],
      value |-> IF \E j \in DOMAIN s : s[j].key = index[i]
                THEN s[CHOOSE j \in DOMAIN s : s[j].key = index[i]].value
                ELSE NaN]]

Keys(series) == [i \in DOMAIN series |-> series[i].key]

\* groupby("Account")["Opportunity ID"].nunique().reindex(revenue_series.index)
count_series_of(filtered, revenue_series) ==
  reindex(groupby_nunique(filtered, "Account", "Opportunity ID"), Keys(revenue_series))

\* len(filtered["Account"].unique())
distinct_accounts(account) == Len(unique(account))

slider_max_value(account) == max(SLIDER_MAX_FLOOR, distinct_accounts(account))

\* A faulty variant of the slider's initial value: the cap itself.
slider_value_fixed(account) == SLIDER_DEFAULT_CAP

slider_value(account) == min(SLIDER_DEFAULT_CAP, distinct_accounts(account))

\* ------------------------------------------------------------------------
\* Streamlit: elements, widgets, session state
\* ------------------------------------------------------------------------

Elem(stage, kind, text) == [stage |-> stage, kind |-> kind, text |-> text]

UPLOAD_INFO == Elem("upload", "info", "Please upload a file to continue.")

APPLY_INFO == Elem("filters", "info", "Modify filters and click **Apply Filters**")

EMPTY_WARNING == Elem("table", "warning", "No data after applying filters.")

CHARTS_INFO == Elem("charts", "info", "Click **Generate Charts** above to view.")

APPLY_BUTTON == "Apply Filters"

GENERATE_BUTTON == "Generate Charts"

DOWNLOAD_BUTTON == "Download Filtered Data"

\* What started an execution: a button's click (its label), or any other
\* input (a file chosen or removed, a selection changed, the slider moved).
INPUT == "input"

KeyError(c) == [type |-> "KeyError", arg |-> c]

ParseError == [type |-> "ParseError", arg |-> "csv-latin1"]

SliderError == [type |-> "StreamlitAPIException", arg |-> "value"]

NoError == [type |-> "", arg |-> ""]

\* What one execution of the script did.
Blank ==
  [outcome |-> "running", error |-> NoError, shown |-> <<>>, reached |-> {},
   attempts |-> <<>>, df |-> EmptyTable, data |-> EmptyTable,
   multiselect |-> <<>>, filters |-> <<>>, filtered |-> EmptyTable,
   total_rev_m |-> in_millions(0), total_opps |-> 0,
   slider |-> <<>>, top_n |-> 0, revenue_series |-> <<>>, count_series |-> <<>>]

Show(r, e) == [r EXCEPT !.shown = Append(@, e)]

Reach(r, stage) == [r EXCEPT !.reached = @ \cup {stage}]

\* st.stop()
Stop(r) == [r EXCEPT !.outcome = "stopped"]

\* The end of the script.
Complete(r) == [r EXCEPT !.outcome = "completed"]

\* An uncaught exception ends the execution; Streamlit shows it.
Raise(r, stage, err) ==
  [r EXCEPT !.outcome = "error", !.error = err,
            !.shown = Append(@, Elem(stage, "exception", err.type))]

\* A faulty variant of st.button: the button reads as clicked in every execution.
always_clicked(label, ev) == TRUE

\* st.button(label): True only in the execution its click started.
button(label, ev) == ev = label

\* st.multiselect(col, options, default=[]): the user's selection while the
\* widget is the same one (same label, same options), else the default.
multiselect(prev, col, options) ==
  LET Same(i) == prev.multiselect[i].col = col /\ prev.multiselect[i].options = options
  IN IF \E i \in DOMAIN prev.multiselect : Same(i)
     THEN prev.multiselect[CHOOSE i \in DOMAIN prev.multiselect : Same(i)].value
     ELSE {}

\* st.slider(label, min_value, max_value, value): the user's value while
\* the widget is the same one, else its initial value.
slider(prev, min_value, max_value, value) ==
  IF /\ prev.slider # <<>>
     /\ prev.slider[1].min_value = min_value
     /\ prev.slider[1].max_value = max_value
     /\ prev.slider[1].value = value
  THEN prev.slider[1].current
  ELSE value

SessionKeys(ss) == {p[1] : p \in ss}

SessionGet(ss, k) == (CHOOSE p \in ss : p[1] = k)[2]

SessionSet(ss, k, v) == {p \in ss : p[1] # k} \cup {<<k, v>>}

\* A faulty variant of the flag's initialisation: the flag is reset in every run.
reset_filters_applied(ss) == SessionSet(ss, "filters_applied", FALSE)

\* if "filters_applied" not in st.session_state: ... = False
init_filters_applied(ss) ==
  IF "filters_applied" \notin SessionKeys(ss)
  THEN SessionSet(ss, "filters_applied", FALSE)
  ELSE ss

\* if st.button("Apply Filters"): st.session_state["filters_applied"] = True
apply_filters(ss, ev) ==
  IF button(APPLY_BUTTON, ev) THEN SessionSet(ss, "filters_applied", TRUE) ELSE ss

\* ------------------------------------------------------------------------
\* The script, last stage first
\* ------------------------------------------------------------------------

\* The count chart, for one revenue series.
CountChart(r, revenue_series) ==
  LET r1 == Show(Show([r EXCEPT !.revenue_series = revenue_series],
                      Elem("charts", "subheader", "Revenue by Account ($M)")),
                 Elem("charts", "plotly_chart", "Revenue by Account (Descending)"))
      r2 == Show(r1, Elem("charts", "subheader", "Opportunity Count by Account"))
  IN IF ~HasColumn(r.filtered, "Opportunity ID")
     THEN Raise(r2, "charts", KeyError("Opportunity ID"))
     ELSE Complete(Show([r2 EXCEPT !.count_series =
                                     count_series_of(r.filtered, revenue_series)],
                        Elem("charts", "plotly_chart",
                             "Opportunity Count (Sorted by Revenue)")))

\* The body of `if st.button("Generate Charts")`: the runs it may make.
GenerateCharts(r0) ==
  LET r == Reach(r0, "charts")
  IN IF ~HasColumn(r.filtered, "Account") THEN {Raise(r, "charts", KeyError("Account"))}
     ELSE IF ~HasColumn(r.filtered, REVENUE) THEN {Raise(r, "charts", KeyError(REVENUE))}
     ELSE {CountChart(r, revenue_series) :
             revenue_series \in revenue_series_of(r.filtered, r.top_n)}

\* Step 4: the slider, the Generate Charts button, the charts or the hint.
Step4(r0, prev, ev) ==
  LET r == Show(r0, Elem("charts", "header", "Step 4: Interactive Charts"))
      account == getitem(r.filtered, "Account")
  IN IF ~account.ok THEN {Raise(r, "charts", KeyError("Account"))}
     ELSE
       LET max_value == slider_max_value(account.values)
           value == slider_value(account.values)
           r1 == Reach(r, "slider")
       IN IF value < SLIDER_MIN \/ value > max_value
          THEN {Raise(r1, "charts", SliderError)}
          ELSE
            LET top_n == slider(prev, SLIDER_MIN, max_value, value)
                r2 == Show([r1 EXCEPT !.top_n = top_n,
                                      !.slider = <<[min_value |-> SLIDER_MIN,
                                                    max_value |-> max_value,
                                                    value |-> value,
                                                    current |-> top_n]>>],
                           Elem("charts", "slider", "Top N Accounts by Revenue"))
                r3 == Show(r2, Elem("charts", "button", GENERATE_BUTTON))
            IN IF button(GENERATE_BUTTON, ev)
               THEN GenerateCharts(r3)
               ELSE {Complete(Show(r3, CHARTS_INFO))}

\* total_opps = nunique of "Opportunity ID" if present else len(filtered)
total_opps_of(filtered) ==
  IF HasColumn(filtered, "Opportunity ID")
  THEN nunique(Column(filtered, "Opportunity ID"))
  ELSE Len(filtered.rows)

\* The download button and Step 3: the two summary metrics.
Step3(r0, prev, ev) ==
  LET r == Show(Show(Reach(r0, "metrics"),
                     Elem("table", "download_button", DOWNLOAD_BUTTON)),
                Elem("metrics", "header", "Step 3: Summary Metrics"))
      revenue == getitem(r.filtered, REVENUE)
  IN IF ~revenue.ok THEN {Raise(r, "metrics", KeyError(REVENUE))}
     ELSE
       LET r1 == [r EXCEPT !.total_rev_m = in_millions(sum(revenue.values)),
                           !.total_opps = total_opps_of(r.filtered)]
           r2 == Show(Show(r1, Elem("metrics", "metric", "Total Revenue ($M)")),
                      Elem("metrics", "metric", "# Opportunities"))
       IN Step4(r2, prev, ev)

\* The filter loop, the filtered table and the empty-result halt.
FilterStage(r0, prev, ev) ==
  LET filtered == Filterer(r0.data, r0.filters)
      r == Show(Show(Reach([r0 EXCEPT !.filtered = filtered], "filtered"),
                     Elem("table", "subheader", "Filtered Data")),
                Elem("table", "dataframe", "filtered"))
  IN IF empty(filtered) THEN {Stop(Show(r, EMPTY_WARNING))} ELSE Step3(r, prev, ev)

\* The filter columns in the order the widget loop visits them.
filter_loop_columns(data) ==
  LET Present(c) == HasColumn(data, c)
  IN SelectSeq(Flatten(chunk_list(FILTER_COLUMNS, FILTER_CHUNK)), Present)

\* Step 2: one multiselect per present filter column, and Apply Filters.
Step2(r0, ss, prev, ev) ==
  LET cols == filter_loop_columns(r0.data)
      ms == [i \in DOMAIN cols |->
               LET options == filter_options(r0.data, cols[i])
               IN [col |-> cols[i], options |-> options,
                   value |-> multiselect(prev, cols[i], options)]]
      filters == [i \in DOMAIN ms |-> [col |-> ms[i].col, selections |-> ms[i].value]]
      widgets_shown == [i \in DOMAIN ms |-> Elem("filters", "multiselect", ms[i].col)]
      r == [Reach(r0, "filters") EXCEPT
              !.multiselect = ms, !.filters = filters,
              !.shown = (Append(@, Elem("filters", "header", "Step 2: Refine Filters"))
                          \o widgets_shown)
                        \o <<Elem("filters", "button", APPLY_BUTTON)>>]
      ss2 == apply_filters(init_filters_applied(ss), ev)
  IN {[session_state |-> ss2, run |-> x] :
        x \in IF ~SessionGet(ss2, "filters_applied")
              THEN {Stop(Show(r, APPLY_INFO))}
              ELSE FilterStage(r, prev, ev)}

\* One execution of the script, top to bottom: the session state and the
\* run it may end with (more than one only where equal sums are sorted).
RunScript(file, ss, prev, ev) ==
  LET r == Show(Show(Show(Blank, Elem("title", "title", "Opportunity Insights Dashboard")),
                     Elem("upload", "header", "Step 1: Upload Data")),
                Elem("upload", "file_uploader", "Upload a CSV or Excel File"))
  IN IF file = NoFile
     THEN {[session_state |-> ss, run |-> Stop(Show(r, UPLOAD_INFO))]}
     ELSE
       LET loaded == load_file(file)
           r1 == [Reach(r, "load") EXCEPT !.attempts = loaded.attempts]
       IN IF ~loaded.ok
          THEN {[session_state |-> ss, run |-> Raise(r1, "upload", ParseError)]}
          ELSE Step2([Reach(r1, "data") EXCEPT !.df = loaded.df,
                                               !.data = ColumnProjector(loaded.df)],
                     ss, prev, ev)

\* ------------------------------------------------------------------------
\* The files a user may upload
\* ------------------------------------------------------------------------

SourceColumns ==
  {"Account", "Opportunity ID", "Market", "Fiscal Period", REVENUE, "Owner"}

SourceRow(account, opportunity, market, revenue) ==
  [c \in SourceColumns |->
     CASE c = "Account" -> account
       [] c = "Opportunity ID" -> opportunity
       [] c = "Market" -> market
       [] c = REVENUE -> revenue
       [] OTHER -> 1]

RowPool ==
  {SourceRow(1, 1, 1, 3), SourceRow(1, 2, 2, 1), SourceRow(2, 1, 1, 2),
   SourceRow(2, 3, 2, 3), SourceRow(NaN, NaN, NaN, 5)}

\* Source headers: each in an order that is not OUTPUT_COLUMNS', one with no
\* output column, and each column the script names missing from one.
Headers ==
  {<<"Owner", REVENUE, "Market", "Opportunity ID", "Account">>,
   <<"Market", "Account", REVENUE>>,
   <<"Opportunity ID", "Market", REVENUE>>,
   <<"Market", "Opportunity ID", "Account">>,
   <<"Owner">>,
   <<"Fiscal Period", REVENUE, "Account", "Opportunity ID">>}

SeqsUpTo(S, n) == UNION {[1..k -> S] : k \in 0..n}

Tables == {Select([columns |-> <<>>, rows |-> rows], h) :
             h \in Headers, rows \in SeqsUpTo(RowPool, MaxRows)}

\* One row per account, d accounts: more distinct accounts than the
\* slider's floor and cap.
Ladder(d) ==
  Select([columns |-> <<>>, rows |-> [i \in 1..d |-> SourceRow(i, i, 1, i)]],
         <<REVENUE, "Account", "Opportunity ID">>)

Ladders == {Ladder(d) : d \in {SLIDER_MAX_FLOOR + 1, MaxAccounts}}

File(name, content, table) == [name |-> name, content |-> content, table |-> table]

SmallTables ==
  {Select([columns |-> <<>>, rows |-> rows],
          <<"Account", "Opportunity ID", "Market", REVENUE>>) :
     rows \in {<<>>, <<SourceRow(1, 1, 1, 3)>>}}

Names == {".csv", ".CSV", ".xlsx", ".xls"}

Files ==
  {File(".csv", "utf8-csv", t) : t \in Tables \cup Ladders}
  \cup {File(n, c, t) : n \in Names, c \in {"utf8-csv", "latin1-csv", "workbook"},
                        t \in SmallTables}
  \cup {File(n, "malformed", EmptyTable) : n \in Names}

\* The files dropped on the uploader while it already holds one.
ReplacementFiles ==
  {File(".csv", "utf8-csv", Select([columns |-> <<>>, rows |-> rows], h)) :
     h \in {<<"Account", "Opportunity ID", "Market", REVENUE>>, <<"Owner">>},
     rows \in {<<SourceRow(1, 1, 1, 3), SourceRow(2, 1, 1, 2)>>}}
  \cup {File(".xlsx", "malformed", EmptyTable)}

\* ------------------------------------------------------------------------
\* The session: one action per interaction, each followed by a run
\* ------------------------------------------------------------------------

NoWidgets == [multiselect |-> <<>>, slider |-> <<>>]

Rendered(kind, text) ==
  \E i \in DOMAIN run.shown : run.shown[i].kind = kind /\ run.shown[i].text = text

Rerun(file, prev, ev) ==
  \E res \in RunScript(file, session_state, prev, ev) :
     /\ uploaded' = file
     /\ session_state' = res.session_state
     /\ widgets' = [multiselect |-> res.run.multiselect, slider |-> res.run.slider]
     /\ run' = res.run

Init ==
  /\ uploaded = NoFile
  /\ session_state = {}
  /\ widgets = NoWidgets
  /\ \E res \in RunScript(NoFile, {}, NoWidgets, INPUT) : run = res.run

\* A file is chosen in the empty uploader.
Upload(f) ==
  /\ uploaded = NoFile
  /\ Rerun(f, widgets, INPUT)

\* Another file is dropped on the uploader.
Replace(f) ==
  /\ uploaded # NoFile
  /\ f # uploaded
  /\ Rerun(f, widgets, INPUT)

\* The uploader's file is removed.
RemoveFile ==
  /\ uploaded # NoFile
  /\ Rerun(NoFile, widgets, INPUT)

\* A value is added to, or taken from, a multiselect's selection.
ToggleSelection(i, v) ==
  LET w == widgets.multiselect[i]
      value == IF v \in w.value THEN w.value \ {v} ELSE w.value \cup {v}
  IN /\ Cardinality(value) <= MaxSelected
     /\ Rerun(uploaded, [widgets EXCEPT !.multiselect[i].value = value], INPUT)

ClickApplyFilters ==
  /\ Rendered("button", APPLY_BUTTON)
  /\ Rerun(uploaded, widgets, APPLY_BUTTON)

MoveSlider(n) ==
  /\ n # widgets.slider[1].current
  /\ Rerun(uploaded, [widgets EXCEPT !.slider[1].current = n], INPUT)

ClickGenerateCharts ==
  /\ Rendered("button", GENERATE_BUTTON)
  /\ Rerun(uploaded, widgets, GENERATE_BUTTON)

\* A click on the download button: the script runs again with every input
\* as it was; st.download_button's return value is not read, and no
\* st.button reads as clicked in that run.
ClickDownload ==
  /\ Rendered("download_button", DOWNLOAD_BUTTON)
  /\ Rerun(uploaded, widgets, DOWNLOAD_BUTTON)

Next ==
  \/ \E f \in Files : Upload(f)
  \/ \E f \in ReplacementFiles : Replace(f)
  \/ RemoveFile
  \/ \E i \in DOMAIN widgets.multiselect :
       \E v \in Range(widgets.multiselect[i].options) : ToggleSelection(i, v)
  \/ ClickApplyFilters
  \/ \E k \in DOMAIN widgets.slider :
       \E n \in widgets.slider[k].min_value..widgets.slider[k].max_value : MoveSlider(n)
  \/ ClickGenerateCharts
  \/ ClickDownload

Spec == Init /\ [][Next]_vars

\* ------------------------------------------------------------------------
\* Vocabulary of the properties
\* ------------------------------------------------------------------------

Reached(stage) == stage \in run.reached

ShownKinds == {run.shown[i].kind : i \in DOMAIN run.shown}

ShownStages == {run.shown[i].stage : i \in DOMAIN run.shown}

LastShown == run.shown[Len(run.shown)]

FlagSet == "filters_applied" \in SessionKeys(session_state)

FlagTrue == FlagSet /\ SessionGet(session_state, "filters_applied")

RevenueChartShown == Rendered("plotly_chart", "Revenue by Account (Descending)")

CountChartShown == Rendered("plotly_chart", "Opportunity Count (Sorted by Revenue)")

Position(s, x) == CHOOSE i \in DOMAIN s : s[i] = x

\* The rows of t that meet every active constraint of filters.
MeetsAll(r, filters) ==
  \A i \in DOMAIN filters :
    filters[i].selections # {} => r[filters[i].col] \in filters[i].selections

ActiveFilters == {i \in DOMAIN run.filters : run.filters[i].selections # {}}

\* The accounts of t (NaN is no account) and what each one's rows add up to.
Accounts(t) == {t.rows[i]["Account"] : i \in DOMAIN t.rows} \ {NaN}

AccountRows(t, a) == {i \in DOMAIN t.rows : t.rows[i]["Account"] = a}

RECURSIVE RevenueOver(_, _)
RevenueOver(t, S) ==
  IF S = {} THEN 0
  ELSE LET i == CHOOSE i \in S : TRUE
       IN t.rows[i][REVENUE] + RevenueOver(t, S \ {i})

AccountRevenue(t, a) == RevenueOver(t, AccountRows(t, a))

AccountOpportunities(t, a) ==
  Cardinality({t.rows[i]["Opportunity ID"] : i \in AccountRows(t, a)} \ {NaN})

\* ------------------------------------------------------------------------
\* C1
\* ------------------------------------------------------------------------

\* C1: the filtered table holds exactly the rows of the working table that
\* are, for every filter column with a non-empty selection, a member of that
\* selection, in the working table's order; with every selection empty it
\* is the working table.
C1_FilteredIsExactlyTheMatchingRows ==
  Reached("filtered") =>
    LET Match(r) == MeetsAll(r, run.filters)
    IN /\ {run.filters[i].col : i \in DOMAIN run.filters}
            = Range(FILTER_COLUMNS) \cap Range(run.data.columns)
       /\ run.filtered.columns = run.data.columns
       /\ run.filtered.rows = SelectSeq(run.data.rows, Match)
       /\ (ActiveFilters = {} => run.filtered = run.data)

\* Two filters are active, and they keep some rows and drop others.
C1_Witness ==
  /\ Reached("filtered")
  /\ Cardinality(ActiveFilters) >= 2
  /\ Len(run.filtered.rows) > 0
  /\ Len(run.filtered.rows) < Len(run.data.rows)

\* ------------------------------------------------------------------------
\* C2
\* ------------------------------------------------------------------------

\* C2: when charts are generated the revenue series holds at most top_n
\* accounts, each with the sum of its rows' revenue, in non-increasing order
\* of the sum, no account left out having a larger sum than one kept; the
\* count series has the same keys in the same order.
C2_TopNSeries ==
  LET rs == run.revenue_series
      cs == run.count_series
      t == run.filtered
      kept == {rs[i].key : i \in DOMAIN rs}
  IN /\ RevenueChartShown =>
          /\ run.top_n >= 1
          /\ Len(rs) = min(run.top_n, Cardinality(Accounts(t)))
          /\ kept \subseteq Accounts(t)
          /\ Cardinality(kept) = Len(rs)
          /\ \A i \in DOMAIN rs : rs[i].value = AccountRevenue(t, rs[i].key)
          /\ \A i, j \in DOMAIN rs : i < j => rs[i].value >= rs[j].value
          /\ \A a \in Accounts(t) \ kept :
               \A i \in DOMAIN rs : AccountRevenue(t, a) <= rs[i].value
     /\ CountChartShown =>
          /\ RevenueChartShown
          /\ Len(cs) = Len(rs)
          /\ \A i \in DOMAIN cs :
               /\ cs[i].key = rs[i].key
               /\ cs[i].value = AccountOpportunities(t, cs[i].key)

\* Both charts are shown, the order by sum is not the order by account, and
\* an account is left out.
C2_Witness ==
  /\ CountChartShown
  /\ Len(run.revenue_series) >= 2
  /\ run.revenue_series[1].key > run.revenue_series[2].key
  /\ Len(run.revenue_series) < Cardinality(Accounts(run.filtered))

\* ------------------------------------------------------------------------
\* C3
\* ------------------------------------------------------------------------

\* C3: the working table's columns are the source columns that are in
\* OUTPUT_COLUMNS, in OUTPUT_COLUMNS order whatever the source order, every
\* row kept in place; a missing listed column narrows the table and raises
\* nothing.
C3_ProjectionInOutputOrder ==
  Reached("data") =>
    LET cols == run.data.columns
    IN /\ Range(cols) = Range(run.df.columns) \cap Range(OUTPUT_COLUMNS)
       /\ \A i, j \in DOMAIN cols :
            i < j => Position(OUTPUT_COLUMNS, cols[i]) < Position(OUTPUT_COLUMNS, cols[j])
       /\ Len(run.data.rows) = Len(run.df.rows)
       /\ \A i \in DOMAIN run.data.rows :
            /\ DOMAIN run.data.rows[i] = Range(cols)
            /\ \A c \in Range(cols) : run.data.rows[i][c] = run.df.rows[i][c]
       /\ Reached("filters")

\* A file without "Market" whose listed columns come in another order than
\* OUTPUT_COLUMNS', with rows.
C3_Witness ==
  /\ Reached("filters")
  /\ "Market" \notin Range(run.df.columns)
  /\ Len(run.data.rows) >= 2
  /\ Len(run.data.columns) >= 3
  /\ \E i, j \in DOMAIN run.df.columns :
       /\ i < j
       /\ run.df.columns[i] \in Range(OUTPUT_COLUMNS)
       /\ run.df.columns[j] \in Range(OUTPUT_COLUMNS)
       /\ Position(OUTPUT_COLUMNS, run.df.columns[i])
            > Position(OUTPUT_COLUMNS, run.df.columns[j])

\* ------------------------------------------------------------------------
\* C4
\* ------------------------------------------------------------------------

\* C4: load_file makes at most two parse attempts; the second (from the
\* stream's start, Latin-1 CSV) is made exactly when the first was the UTF-8
\* CSV parse and it raised; a second failure ends the run before any later
\* stage.
C4_RetryOnlyAfterUtf8Csv ==
  Reached("load") =>
    LET a == run.attempts
    IN /\ Len(a) \in {1, 2}
       /\ Len(a) = 2 <=> (a[1].parser = "csv-utf-8" /\ ~a[1].ok)
       /\ Len(a) = 2 => (a[2].parser = "csv-latin1" /\ a[2].offset = 0)
       /\ ~a[Len(a)].ok => (run.outcome = "error" /\ ~Reached("data"))

\* ------------------------------------------------------------------------
\* C5
\* ------------------------------------------------------------------------

HaltMessages == {UPLOAD_INFO, APPLY_INFO, EMPTY_WARNING}

C5_HaltsInPlace ==
  /\ uploaded = NoFile =>
       /\ run.outcome = "stopped"
       /\ LastShown = UPLOAD_INFO
       /\ ShownStages \subseteq {"title", "upload"}
  /\ (Reached("filters") /\ ~FlagTrue) =>
       /\ run.outcome = "stopped"
       /\ LastShown = APPLY_INFO
       /\ ShownStages \subseteq {"title", "upload", "filters"}
       /\ ~Reached("filtered")
  /\ (Reached("filtered") /\ Len(run.filtered.rows) = 0) =>
       /\ run.outcome = "stopped"
       /\ LastShown = EMPTY_WARNING
       /\ ShownStages \subseteq {"title", "upload", "filters", "table"}
       /\ ShownKinds \cap {"download_button", "metric", "slider", "plotly_chart"} = {}
  /\ Cardinality({m.text : m \in HaltMessages \cup {CHARTS_INFO}}) = 4
  /\ Cardinality({i \in DOMAIN run.shown : run.shown[i] \in HaltMessages})
       = (IF run.outcome = "stopped" THEN 1 ELSE 0)
  /\ "plotly_chart" \in ShownKinds => Reached("charts")

\* C5: with no file the run halts at the upload stage, with filters not yet
\* applied before filtering, with no filtered row before the download
\* button, the metrics and the charts, each halt with a message of its own
\* and nothing of a later stage; charts are rendered only in a run that a
\* click on Generate Charts started.
C5_HaltsAndChartsOnlyOnClick ==
  /\ []C5_HaltsInPlace
  /\ [][("plotly_chart" \in ShownKinds)' => ClickGenerateCharts]_vars

\* A filtered table without rows, shown with the warning and nothing after.
C5_Witness ==
  /\ Reached("filtered")
  /\ Len(run.filtered.rows) = 0
  /\ Len(run.data.rows) > 0
  /\ LastShown = EMPTY_WARNING

\* ------------------------------------------------------------------------
\* C6
\* ------------------------------------------------------------------------

\* C6: filters_applied is set to False by the first run that reaches the
\* filter stage, becomes True in the run a click on Apply Filters starts,
\* and no interaction resets it: every later run that loads a file goes on
\* to filter with the current selections.
C6_FlagIsSetOnceForTheSession ==
  [][/\ FlagSet => FlagSet'
     /\ FlagTrue => FlagTrue'
     /\ (~FlagSet /\ Reached("filters")') => (FlagSet' /\ ~FlagTrue')
     /\ (~FlagSet /\ FlagSet') => Reached("filters")'
     /\ ClickApplyFilters => FlagTrue'
     /\ (~FlagTrue /\ FlagTrue') => ClickApplyFilters
     /\ (FlagTrue /\ Reached("filters")') =>
          (Reached("filtered")' /\ run'.filtered = Filterer(run'.data, run'.filters))
    ]_vars

\* The flag is True and the file is gone: it survived the removal.
C6_Witness == FlagTrue /\ uploaded = NoFile

\* ------------------------------------------------------------------------
\* C7
\* ------------------------------------------------------------------------

\* C7: without the "Account" or the revenue column, a run that reaches the
\* metrics with a non-empty filtered table ends in a missing-column error;
\* no zero total, no series and no chart stands in for the error.
C7_MissingColumnIsAnError ==
  LET missing == {"Account", REVENUE} \ Range(run.data.columns)
  IN (Reached("metrics") /\ missing # {}) =>
       /\ run.outcome = "error"
       /\ run.error.type = "KeyError"
       /\ run.error.arg \in missing
       /\ LastShown.kind = "exception"
       /\ ShownKinds \cap {"slider", "plotly_chart"} = {}
       /\ ~Reached("charts")
       /\ REVENUE \in missing => "metric" \notin ShownKinds

\* The revenue column is missing and the run got to the metrics.
C7_Witness ==
  /\ Reached("metrics")
  /\ REVENUE \notin Range(run.data.columns)
  /\ "Account" \in Range(run.data.columns)

\* ------------------------------------------------------------------------
\* C8
\* ------------------------------------------------------------------------

\* C8: a file with none of the OUTPUT_COLUMNS gives a working table without
\* columns and no error; every run then halts with the Apply Filters hint
\* or, once filters are applied, the empty-result warning.
C8_NoOutputColumnHaltsGracefully ==
  (Reached("data") /\ Range(run.df.columns) \cap Range(OUTPUT_COLUMNS) = {}) =>
     /\ run.data.columns = <<>>
     /\ Len(run.data.rows) = Len(run.df.rows)
     /\ run.filters = <<>>
     /\ run.outcome = "stopped"
     /\ run.error = NoError
     /\ "exception" \notin ShownKinds
     /\ LastShown = (IF FlagTrue THEN EMPTY_WARNING ELSE APPLY_INFO)

\* Filters are applied to a table with rows and no column.
C8_Witness ==
  /\ Reached("filtered")
  /\ run.data.columns = <<>>
  /\ Len(run.df.rows) >= 2

\* ------------------------------------------------------------------------
\* C9
\* ------------------------------------------------------------------------

\* C9: the opportunity count is the number of distinct "Opportunity ID"
\* values of the filtered rows, or the number of filtered rows without that
\* column, and the column's absence puts no run into an error state, at the
\* metric or at the count chart.
C9_NoOpportunityIdIsNoError ==
  LET t == run.filtered
  IN /\ "metric" \in ShownKinds =>
          run.total_opps =
            (IF "Opportunity ID" \in Range(t.columns)
             THEN Cardinality({t.rows[i]["Opportunity ID"] : i \in DOMAIN t.rows} \ {NaN})
             ELSE Len(t.rows))
     /\ (/\ Reached("data")
         /\ "Opportunity ID" \notin Range(run.data.columns)
         /\ {"Account", REVENUE} \subseteq Range(run.data.columns)) =>
          run.outcome # "error"

\* ------------------------------------------------------------------------
\* C10
\* ------------------------------------------------------------------------

\* C10: with d distinct account values the top-N control ranges over
\* [1, max(5, d)], starts at min(10, d), which lies in the range, and the
\* top_n it returns is an integer of the range.
C10_SliderIsWellFormed ==
  Reached("slider") =>
    LET t == run.filtered
        d == Cardinality({t.rows[i]["Account"] : i \in DOMAIN t.rows})
    IN /\ run.slider # <<>>
       /\ "slider" \in ShownKinds
       /\ run.slider[1].min_value = 1
       /\ run.slider[1].max_value = (IF d > 5 THEN d ELSE 5)
       /\ run.slider[1].value = (IF d < 10 THEN d ELSE 10)
       /\ run.slider[1].value \in run.slider[1].min_value..run.slider[1].max_value
       /\ run.top_n = run.slider[1].current
       /\ run.top_n \in 1..run.slider[1].max_value

\* More distinct accounts than the initial value's cap.
C10_Witness ==
  /\ Reached("slider")
  /\ Len(run.slider) = 1
  /\ run.slider[1].max_value > 10
  /\ run.slider[1].value = 10

====
